---- MODULE Spec2Model ----
(***************************************************************************)
(* A model of UpChunk (src/src/upchunk.ts): the chunk sources              *)
(* (ChunkedStreamIterable, ChunkedFileIterable), the per-chunk send/retry  *)
(* logic (sendChunk, sendChunkWithRetries) and the orchestration loop      *)
(* (sendChunks) with pause/resume/abort/offline/online.                    *)
(*                                                                         *)
(* Bytes.  A Blob is modelled by the range of file bytes it holds,         *)
(* <<start, size>>: file.stream() delivers the file's bytes in order, so   *)
(* every blob the sources build is one contiguous range of the file.       *)
(* NoChunk (the empty tuple) is JavaScript's undefined.                    *)
(*                                                                         *)
(* Scheduling.  JavaScript is single threaded: an action is the code that  *)
(* runs between two suspension points (an await on the iterator, on the    *)
(* headers, on the request, or a retry timer), and the public methods and  *)
(* the window's online/offline events are actions of their own.            *)
(***************************************************************************)
EXTENDS Integers, Sequences, FiniteSets, TLC

(* ----------------------------- bounds ---------------------------------- *)
MaxFileUnits == 3       \* file.size ranges over 0..MaxFileUnits units
MaxAttempts == 2        \* options.attempts ranges over 1..MaxAttempts
MaxLoops == 2           \* sendChunks() invocations alive at the same time
MaxFaults == 2          \* in a run: calls of pause()/abort(), window 'offline' events,
                        \* responses other than 200, failed reads, rejected endpoints

(* ------------------------ program constants ---------------------------- *)
DEFAULT_CHUNK_SIZE == 30720
DEFAULT_MAX_CHUNK_SIZE == 512000
DEFAULT_MIN_CHUNK_SIZE == 256
ALIGN == 256
KiB == 1024
SUCCESSFUL_CHUNK_UPLOAD_CODES == {200, 201, 202, 204, 308}
TEMPORARY_ERROR_CODES == {408, 502, 503, 504}
RESUME_INCOMPLETE_CODES == {308}

(* ----------------------- the modelled environment ---------------------- *)
FileUnit == 128 * KiB                       \* granularity of the file sizes tried
FileSizes == {u * FileUnit : u \in 0..MaxFileUnits}
ReadSizes == {FileUnit, 3 * FileUnit}       \* sizes of one reader.read() value
AnyReadSizes == {0, FileUnit, 2 * FileUnit, 3 * FileUnit}  \* the same, with empty values
ChunkSizes == {256, 512}                    \* options.chunkSize (KiB)
MaxChunkSizes == {512}                      \* options.maxChunkSize (KiB)
Elapsed == {5, 10, 30, 40}                  \* seconds between lastChunkStart and the response
ProgressEvents == {[loaded |-> 1, total |-> 2], [loaded |-> 2, total |-> 2]}  \* upload.onprogress
Statuses == {0, 200, 308, 400, 503}         \* statusCode of a response (0: of xhr's error)
NoChunk == <<>>
NoRes == [statusCode |-> -1, range |-> -1]  \* the request rejected without a statusCode
NoRange == -1                               \* no (or no parsable) Range header

Min(a, b) == IF a < b THEN a ELSE b
Max(a, b) == IF a > b THEN a ELSE b
CeilDiv(a, b) == -((-a) \div b)
Abs(a) == IF a < 0 THEN -a ELSE a
RECURSIVE Gcd(_, _)
Gcd(a, b) == IF b = 0 THEN a ELSE Gcd(b, a % b)

\* A progress value is the number n/d of hundreds of percent, <<n, d>> in lowest
\* terms with d > 0; JavaScript's NaN and -Infinity are values of their own.
NoProgress == <<>>
NaN == <<0, 0>>
NegInfinity == <<-1, 0>>
Ratio(n, d) ==
    LET g == Gcd(Abs(n), Abs(d))
        sgn == IF d < 0 THEN -1 ELSE 1
    IN  <<sgn * (n \div g), sgn * (d \div g)>>
\* Math.min(x * 100, 100)
CapAt100(p) == IF p[2] > 0 /\ p[1] > p[2] THEN <<1, 1>> ELSE p
Leq(p, q) == p[1] * q[2] <= q[1] * p[2]

BlobSize(b) == IF b = NoChunk THEN 0 ELSE b[2]
BlobConcat(a, b) == IF a = NoChunk THEN b ELSE <<a[1], a[2] + b[2]>>
BlobSliceTo(b, n) == <<b[1], Min(n, b[2])>>
BlobSliceFrom(b, n) == <<b[1] + Min(n, b[2]), b[2] - Min(n, b[2])>>

(* --------------------------- pure functions ---------------------------- *)
isValidChunkSize(chunkSize, minChunkSize, maxChunkSize) ==
    /\ chunkSize >= 256
    /\ chunkSize % 256 = 0
    /\ chunkSize >= minChunkSize
    /\ chunkSize <= maxChunkSize

isSuccessfulChunkUpload(res) ==
    res # NoRes /\ res.statusCode \in SUCCESSFUL_CHUNK_UPLOAD_CODES

isRetriableChunkUpload(res, retryCodes) ==
    res = NoRes \/ res.statusCode \in retryCodes

\* isFailedChunkUpload giving up one attempt early.
isFailedChunkUploadEarly(res, retryCodes, attemptCount, attempts) ==
    \/ attemptCount + 1 >= attempts
    \/ ~(isSuccessfulChunkUpload(res) \/ isRetriableChunkUpload(res, retryCodes))

\* isFailedChunkUpload allowing one attempt too many.
isFailedChunkUploadLate(res, retryCodes, attemptCount, attempts) ==
    \/ attemptCount > attempts
    \/ ~(isSuccessfulChunkUpload(res) \/ isRetriableChunkUpload(res, retryCodes))

\* isFailedChunkUpload looking at the attempt count only.
isFailedChunkUploadByCountOnly(res, retryCodes, attemptCount, attempts) ==
    attemptCount >= attempts

isFailedChunkUpload(res, retryCodes, attemptCount, attempts) ==
    \/ attemptCount >= attempts
    \/ ~(isSuccessfulChunkUpload(res) \/ isRetriableChunkUpload(res, retryCodes))

\* isIncompleteChunkUploadNeedingRetry taking a Range that ends at the chunk's
\* last byte for incomplete.
isIncompleteChunkUploadInclusive(res, currentChunkEndByte) ==
    IF res = NoRes \/ res.statusCode \notin RESUME_INCOMPLETE_CODES \/ res.range = NoRange
    THEN FALSE
    ELSE res.range <= currentChunkEndByte

isIncompleteChunkUploadNeedingRetry(res, currentChunkEndByte) ==
    IF res = NoRes \/ res.statusCode \notin RESUME_INCOMPLETE_CODES \/ res.range = NoRange
    THEN FALSE
    ELSE res.range < currentChunkEndByte

(* ------------------------------- state --------------------------------- *)
VARIABLES
    options,              \* the UpChunkOptions the session was constructed with
    chunkSize,            \* chunkedIterable.chunkSize (KiB)
    chunkCount,           \* UpChunk.chunkCount
    totalChunks,          \* UpChunk.totalChunks
    attemptCount,         \* UpChunk.attemptCount
    offline,              \* UpChunk._offline
    paused,               \* UpChunk._paused
    success,              \* UpChunk.success
    nextChunkRangeStart,  \* UpChunk.nextChunkRangeStart
    pendingChunk,         \* UpChunk.pendingChunk
    currentXhr,           \* UpChunk.currentXhr: the loop whose request it is, 0 if undefined
    iter,                 \* chunkedIterable and chunkedIterator
    fallbackArmed,        \* readableStreamErrorCallback is subscribed to 'error'
    endpointPending,      \* getEndpoint() promises not yet settled
    loops,                \* the invocations of sendChunks(), each at its suspension point
    nextQueue,            \* invocations waiting in chunkedIterator.next(), oldest first
    log,                  \* events dispatched, requests issued and responses received
    progress,             \* the 'progress' events: the last value, whether 100 was among
                          \* them, and whether one was lower than the one before it
    env,                  \* what the environment has done so far
    raw,                  \* the options object as the caller passed it to the constructor
    ctor                  \* the constructor: "new" not yet run, "thrown", "done"

vars == <<options, chunkSize, chunkCount, totalChunks, attemptCount, offline, paused,
          success, nextChunkRangeStart, pendingChunk, currentXhr, iter, fallbackArmed,
          endpointPending, loops, nextQueue, log, progress, env, raw, ctor>>

LoopIds == 1..MaxLoops

\* A free slot: no invocation of sendChunks() lives here.
IdleLoop == [pc |-> "idle", chunk |-> NoChunk, rs |-> 0, fromPending |-> FALSE,
             viaTimer |-> FALSE, caught |-> FALSE, aborted |-> FALSE, loaded |-> 0]

\* The session's fields as one value, so that a handler's steps can be composed.
Session ==
    [options |-> options, chunkSize |-> chunkSize, chunkCount |-> chunkCount,
     totalChunks |-> totalChunks, attemptCount |-> attemptCount, offline |-> offline,
     paused |-> paused, success |-> success, nextChunkRangeStart |-> nextChunkRangeStart,
     pendingChunk |-> pendingChunk, currentXhr |-> currentXhr, iter |-> iter,
     fallbackArmed |-> fallbackArmed, endpointPending |-> endpointPending, loops |-> loops,
     nextQueue |-> nextQueue, log |-> log, progress |-> progress, env |-> env]

Commit(S) ==
    /\ options' = S.options
    /\ chunkSize' = S.chunkSize
    /\ chunkCount' = S.chunkCount
    /\ totalChunks' = S.totalChunks
    /\ attemptCount' = S.attemptCount
    /\ offline' = S.offline
    /\ paused' = S.paused
    /\ success' = S.success
    /\ nextChunkRangeStart' = S.nextChunkRangeStart
    /\ pendingChunk' = S.pendingChunk
    /\ currentXhr' = S.currentXhr
    /\ iter' = S.iter
    /\ fallbackArmed' = S.fallbackArmed
    /\ endpointPending' = S.endpointPending
    /\ loops' = S.loops
    /\ nextQueue' = S.nextQueue
    /\ log' = S.log
    /\ progress' = S.progress
    /\ env' = S.env
    /\ UNCHANGED <<raw, ctor>>

chunkByteSize(S) == S.chunkSize * KiB

\* new ChunkedStreamIterable(file.stream()) and its iterator, not yet started.
NewStreamIterable ==
    [kind |-> "stream", st |-> "read", pos |-> 0, held |-> NoChunk, error |-> FALSE]

\* new ChunkedFileIterable(file) and its iterator: its own nextChunkRangeStart is 0.
NewFileIterable ==
    [kind |-> "file", st |-> "read", pos |-> 0, held |-> NoChunk, error |-> FALSE]

\* The options validateOptions() accepts, among those tried.
validateOptions(o) ==
    /\ isValidChunkSize(o.chunkSize, o.minChunkSize, o.maxChunkSize)
    /\ o.maxChunkSize >= 256 /\ o.maxChunkSize % 256 = 0
    /\ o.maxChunkSize >= o.chunkSize /\ o.maxChunkSize >= o.minChunkSize
    /\ o.minChunkSize >= 256 /\ o.minChunkSize % 256 = 0
    /\ o.minChunkSize <= o.chunkSize /\ o.minChunkSize <= o.maxChunkSize
    /\ o.attempts > 0

OptionSpace ==
    [fileSize : FileSizes, chunkSize : ChunkSizes, minChunkSize : {DEFAULT_MIN_CHUNK_SIZE},
     maxChunkSize : MaxChunkSizes, attempts : 1..MaxAttempts,
     retryCodes : {TEMPORARY_ERROR_CODES}, dynamicChunkSize : BOOLEAN,
     useLargeFileWorkaround : BOOLEAN]

(* ------------------- the options as the caller passes them ------------ *)
\* A JavaScript value: t is its typeof ("File" and "Blob" for objects of these
\* classes) and v the number, the length of the string, or the size of the file.
JsVal(t, v) == [t |-> t, v |-> v]
Undefined == JsVal("undefined", 0)
Num(n) == JsVal("number", n)
Str(n) == JsVal("string", n)
Fn == JsVal("function", 0)
Obj == JsVal("object", 0)

Truthy(x) ==
    CASE x.t \in {"undefined", "null"} -> FALSE
      [] x.t \in {"number", "string"} -> x.v # 0
      [] OTHER -> TRUE
OrElse(x, d) == IF Truthy(x) THEN x ELSE d                           \* x || d
Nullish(x, d) == IF x.t \in {"undefined", "null"} THEN d ELSE x      \* x ?? d

\* The option objects tried.  The sizes are undefined or numbers.
RawOptionSpace ==
    [endpoint : {Undefined, Str(0), Str(1), Fn, Num(1)},
     file : {Undefined, JsVal("Blob", FileUnit), JsVal("File", FileUnit),
             JsVal("File", 3 * FileUnit)},
     headers : {Undefined, Obj, Str(1), Str(0)},
     chunkSize : {Undefined, Str(1), Num(0), Num(100), Num(256), Num(512)},
     minChunkSize : {Undefined, Num(100), Num(256), Num(512)},
     maxChunkSize : {Undefined, Num(256), Num(300), Num(512)},
     maxFileSize : {Undefined, Num(256)},
     attempts : {Undefined, Num(0), Num(-1), Num(MaxAttempts), Str(1)},
     delayBeforeAttempt : {Undefined, Num(-1), Num(1)}]

NoRaw == [f \in DOMAIN (CHOOSE o \in RawOptionSpace : TRUE) |-> Undefined]

\* The fields the constructor sets from the options, before validateOptions().
Fields(o) ==
    [endpoint |-> o.endpoint,
     file |-> o.file,
     headers |-> OrElse(o.headers, Obj),
     attempts |-> OrElse(o.attempts, Num(5)),
     delayBeforeAttempt |-> OrElse(o.delayBeforeAttempt, Num(1)),
     maxFileBytes |-> OrElse(o.maxFileSize, Num(0)).v * 1024,
     chunkSize |-> Nullish(o.chunkSize, Num(DEFAULT_CHUNK_SIZE)),
     minChunkSize |-> Nullish(o.minChunkSize, Num(DEFAULT_MIN_CHUNK_SIZE)),
     maxChunkSize |-> Nullish(o.maxChunkSize, Num(DEFAULT_MAX_CHUNK_SIZE))]

\* new ChunkedStreamIterable(file.stream(), {...options, defaultChunkSize}) throws:
\* file.stream() on undefined, or isValidChunkSize(options.chunkSize, options) fails.
ChunkedStreamIterableThrows(o) ==
    \/ o.file.t = "undefined"
    \/ /\ o.chunkSize.t \notin {"undefined", "null"}
       /\ \/ o.chunkSize.t # "number"
          \/ ~isValidChunkSize(o.chunkSize.v,
                               Nullish(o.minChunkSize, Num(DEFAULT_MIN_CHUNK_SIZE)).v,
                               Nullish(o.maxChunkSize, Num(DEFAULT_MAX_CHUNK_SIZE)).v)

\* validateOptions() throws, f being the fields of a session whose iterable
\* was constructed (so f.chunkSize is a number).
validateOptionsThrows(f) ==
    \/ ~Truthy(f.endpoint) \/ f.endpoint.t \notin {"function", "string"}
    \/ f.file.t # "File"
    \/ Truthy(f.headers) /\ f.headers.t \notin {"function", "object"}
    \/ ~isValidChunkSize(f.chunkSize.v, f.minChunkSize.v, f.maxChunkSize.v)
    \/ /\ Truthy(f.maxChunkSize)
       /\ \/ f.maxChunkSize.t # "number"
          \/ f.maxChunkSize.v < 256
          \/ f.maxChunkSize.v % 256 # 0
          \/ f.maxChunkSize.v < f.chunkSize.v
          \/ f.maxChunkSize.v < f.minChunkSize.v
    \/ /\ Truthy(f.minChunkSize)
       /\ \/ f.minChunkSize.t # "number"
          \/ f.minChunkSize.v < 256
          \/ f.minChunkSize.v % 256 # 0
          \/ f.minChunkSize.v > f.chunkSize.v
          \/ f.minChunkSize.v > f.maxChunkSize.v
    \/ f.maxFileBytes > 0 /\ f.maxFileBytes < f.file.v
    \/ Truthy(f.attempts) /\ (f.attempts.t # "number" \/ f.attempts.v <= 0)
    \/ /\ Truthy(f.delayBeforeAttempt)
       /\ (f.delayBeforeAttempt.t # "number" \/ f.delayBeforeAttempt.v < 0)

ConstructorThrows(o) == ChunkedStreamIterableThrows(o) \/ validateOptionsThrows(Fields(o))

\* The session's options, in the form the rest of the model reads them.
OptionsOf(o) ==
    [fileSize |-> Fields(o).file.v, chunkSize |-> Fields(o).chunkSize.v,
     minChunkSize |-> Fields(o).minChunkSize.v, maxChunkSize |-> Fields(o).maxChunkSize.v,
     attempts |-> Fields(o).attempts.v, retryCodes |-> TEMPORARY_ERROR_CODES,
     dynamicChunkSize |-> FALSE, useLargeFileWorkaround |-> FALSE]

\* faults counts towards budget; interrupted: pause(), abort() or 'offline'
\* happened; badResponse: a request settled otherwise than with a success;
\* readErrorAt: the bytes read when reader.read() rejected, -1 if it never did;
\* thrown: failedChunkUploadCb threw; yielded: the chunks the sources yielded.
\* abortedAt: the length of the log when abort() was first called with a request
\* in flight, -1 if it never was; resumed: resume() was called; rejectedAt: the
\* length of the log when a getEndpoint() promise first rejected, -1 if none did;
\* attemptPaused, attemptOffline: an attempt event was dispatched while _paused,
\* while _offline; lastRes: what the last request settled with, lastResAt: the
\* length of the log when it did, -1 before any has; parked: the last chunk the
\* retry timer stored in pendingChunk, with the length of the log at that moment
\* (-1: none yet), the range start it had been sent with, and the chunks the
\* sources had yielded; over: pendingChunk held a chunk when the timer stored one;
\* carried: a chunk fresh from the source began its first attempt with
\* attemptCount other than 0; resolved: the length of the log when getEndpoint()
\* first resolved and endpointValue was set (-1: not yet), and the sendChunks
\* invocations alive at that moment; redundant: the last call of pause() on a
\* paused session or of resume() on one that is not ("none": no such call).
NoEnv == [faults |-> 0, budget |-> MaxFaults, interrupted |-> FALSE, badResponse |-> FALSE,
          readErrorAt |-> -1, thrown |-> FALSE, yielded |-> 0,
          abortedAt |-> -1, resumed |-> FALSE, rejectedAt |-> -1,
          attemptPaused |-> FALSE, attemptOffline |-> FALSE,
          lastRes |-> NoRes, lastResAt |-> -1, lastChunkInterval |-> -1,
          carried |-> FALSE, redundant |-> "none", resolved |-> [at |-> -1, others |-> 0],
          parked |-> [at |-> -1, chunk |-> NoChunk, rs |-> 0, yielded |-> 0,
                      over |-> FALSE]]

\* The state the constructor leaves: nothing sent, the endpoint promise pending.
\* The environment may do n of the things `faults` counts.
InitBudget(O, n) ==
    /\ options \in {o \in O : validateOptions(o)}
    /\ chunkSize = options.chunkSize
    /\ chunkCount = 0
    /\ totalChunks = CeilDiv(options.fileSize, options.chunkSize * KiB)
    /\ attemptCount = 0
    /\ offline = FALSE
    /\ paused = FALSE
    /\ success = FALSE
    /\ nextChunkRangeStart = 0
    /\ pendingChunk = NoChunk
    /\ currentXhr = 0
    /\ iter = NewStreamIterable
    /\ fallbackArmed = options.useLargeFileWorkaround
    /\ endpointPending = 1
    /\ loops = [l \in LoopIds |-> IdleLoop]
    /\ nextQueue = <<>>
    /\ log = <<>>
    /\ progress = [last |-> NoProgress, full |-> FALSE, dropped |-> FALSE]
    /\ env = [NoEnv EXCEPT !.budget = n]
    /\ raw = NoRaw
    /\ ctor = "done"

InitOver(O) == InitBudget(O, MaxFaults)

Init == InitOver(OptionSpace)

\* A file of two chunks, each of which may fail while the other is retried, and
\* an environment that may pause twice beside two failed responses.
ParkOptionSpace ==
    [fileSize : {3 * FileUnit}, chunkSize : {256}, minChunkSize : {DEFAULT_MIN_CHUNK_SIZE},
     maxChunkSize : MaxChunkSizes, attempts : {MaxAttempts + 1},
     retryCodes : {TEMPORARY_ERROR_CODES}, dynamicChunkSize : {FALSE},
     useLargeFileWorkaround : {FALSE}]

InitPark == InitBudget(ParkOptionSpace, MaxFaults + 2)

\* Before `new UpChunk(raw)`: no session yet, nothing pending.
InitOptions ==
    /\ raw \in RawOptionSpace
    /\ ctor = "new"
    /\ options = OptionsOf(NoRaw)
    /\ chunkSize = options.chunkSize
    /\ chunkCount = 0
    /\ totalChunks = 0
    /\ attemptCount = 0
    /\ offline = FALSE
    /\ paused = FALSE
    /\ success = FALSE
    /\ nextChunkRangeStart = 0
    /\ pendingChunk = NoChunk
    /\ currentXhr = 0
    /\ iter = NewStreamIterable
    /\ fallbackArmed = FALSE
    /\ endpointPending = 0
    /\ loops = [l \in LoopIds |-> IdleLoop]
    /\ nextQueue = <<>>
    /\ log = <<>>
    /\ progress = [last |-> NoProgress, full |-> FALSE, dropped |-> FALSE]
    /\ env = NoEnv

\* Options with chunk sizes that are odd multiples of 256 and bounds that differ,
\* and a file of several chunks, for the dynamic sizing.
SizeOptionSpace ==
    [fileSize : {2 * MaxFileUnits * FileUnit}, chunkSize : {256, 512, 768, 1024},
     minChunkSize : {256, 512}, maxChunkSize : {768, 1024, 1280},
     attempts : {MaxAttempts}, retryCodes : {TEMPORARY_ERROR_CODES},
     dynamicChunkSize : {TRUE}, useLargeFileWorkaround : BOOLEAN]

InitSizes == InitOver(SizeOptionSpace)

\* SizeOptionSpace with a longer file, and with the dynamic sizing on or off.
ResizeOptionSpace ==
    [fileSize : {4 * MaxFileUnits * FileUnit}, chunkSize : {256, 512, 768, 1024},
     minChunkSize : {256, 512}, maxChunkSize : {768, 1024, 1280},
     attempts : {MaxAttempts}, retryCodes : {TEMPORARY_ERROR_CODES},
     dynamicChunkSize : BOOLEAN, useLargeFileWorkaround : BOOLEAN]

InitResize == InitOver(ResizeOptionSpace)

\* Sessions whose retryCodes may hold a success status.
ClassifyOptionSpace ==
    [fileSize : FileSizes, chunkSize : {256}, minChunkSize : {DEFAULT_MIN_CHUNK_SIZE},
     maxChunkSize : MaxChunkSizes, attempts : 1..MaxAttempts,
     retryCodes : {TEMPORARY_ERROR_CODES, {200, 503}}, dynamicChunkSize : {FALSE},
     useLargeFileWorkaround : {FALSE}]

InitClassify == InitOver(ClassifyOptionSpace)

\* A file of two chunks, each of which can be retried and parked.
CallsOptionSpace ==
    [fileSize : {3 * FileUnit}, chunkSize : {256}, minChunkSize : {DEFAULT_MIN_CHUNK_SIZE},
     maxChunkSize : MaxChunkSizes, attempts : {MaxAttempts},
     retryCodes : {TEMPORARY_ERROR_CODES}, dynamicChunkSize : BOOLEAN,
     useLargeFileWorkaround : {FALSE}]

InitCalls == InitOver(CallsOptionSpace)

(* ------------------------- events and requests ------------------------- *)
\* One entry of the log.  "attempt" stands for the attempt event and the request
\* issued right after it: a, b are the Content-Range's first and last byte and
\* body the request body.  "chunkSuccess": a is detail.attempts, b the chunk size.
\* "attemptFailure": a is detail.attemptsLeft.  "error": a is detail.attempts.
\* status is detail.response's statusCode (-1: no response), 0 where the event
\* has no response.
Ev(ev, chunk, a, b, body, status) ==
    [ev |-> ev, chunk |-> chunk, a |-> a, b |-> b, body |-> body, status |-> status]

Emit(S, e) == [S EXCEPT !.log = Append(@, e)]

\* dispatch('error', ...): readableStreamErrorCallback was subscribed first, so it
\* runs first; when the iterable has failed it hides the event from the other
\* listeners and sets the session up again with a ChunkedFileIterable.  The
\* abandoned generator has left its try block, so a next() still waiting on it
\* resolves to done.
readableStreamErrorCallback(S) ==
    [Emit(S, Ev("errorHidden", S.chunkCount, S.attemptCount, 0, NoChunk, 0)) EXCEPT
        !.iter = NewFileIterable,
        !.chunkSize = S.options.chunkSize,
        !.fallbackArmed = FALSE,
        !.endpointPending = @ + 1,
        !.nextQueue = <<>>,
        !.loops = [l \in LoopIds |->
                     IF @[l].pc = "next" THEN [@[l] EXCEPT !.pc = "nextStale"] ELSE @[l]]]

\* dispatch('progress', p)
DispatchProgress(S, p) ==
    [S EXCEPT !.progress = [last |-> p, full |-> @.full \/ p = <<1, 1>>,
                            dropped |-> @.dropped \/ (@.last # NoProgress /\ ~Leq(@.last, p))]]

successfulPercentage(S) == Ratio(S.nextChunkRangeStart, S.options.fileSize)

\* onprogress with the bug of crediting the chunk in flight with all the bytes
\* that remain, not with its share of them.
onprogressWholeRemainder(S, e) ==
    LET F == S.options.fileSize
        n == S.nextChunkRangeStart
    IN  CapAt100(Ratio(n * e.total + e.loaded * (F - n), F * e.total))

\* The value upload.onprogress dispatches for the event e.  A division by
\* remainingChunks = 0 gives Infinity, -Infinity or NaN as in JavaScript.
onprogress(S, e) ==
    LET F == S.options.fileSize
        n == S.nextChunkRangeStart
        remainingChunks == S.totalChunks - S.chunkCount
    IN  IF remainingChunks = 0
        THEN IF F - n > 0 THEN <<1, 1>>
             ELSE IF F - n < 0 THEN NegInfinity
             ELSE NaN
        ELSE CapAt100(Ratio(n * remainingChunks * e.total + e.loaded * (F - n),
                            F * remainingChunks * e.total))

DispatchError(S, ev, status) ==
    IF S.fallbackArmed /\ S.iter.error
    THEN readableStreamErrorCallback(S)
    ELSE Emit(S, Ev(ev, S.chunkCount, S.attemptCount, 0, NoChunk, status))

(* ------------------------------ sendChunks ----------------------------- *)
\* The head of the while loop: leave, or call chunkedIterator.next() and wait.
WhileHead(S, l) ==
    IF S.success \/ S.paused \/ S.offline
    THEN [S EXCEPT !.loops[l] = IdleLoop]
    ELSE [S EXCEPT !.loops[l] = [@ EXCEPT !.pc = "next", !.chunk = NoChunk,
                                          !.fromPending = FALSE, !.viaTimer = FALSE],
                   !.nextQueue = Append(@, l)]

\* sendChunkWithRetries up to the await in sendChunk: count the attempt, take the
\* range start, wait for the headers.
BeginAttempt(S, l, chunk, viaTimer) ==
    [S EXCEPT !.attemptCount = @ + 1,
              !.loops[l] = [@ EXCEPT !.pc = "hdr", !.chunk = chunk,
                                     !.rs = S.nextChunkRangeStart,
                                     !.viaTimer = viaTimer, !.aborted = FALSE]]

\* sendChunks() from its call to its first await.
sendChunks(S, l, caught) ==
    LET S0 == [S EXCEPT !.loops[l] = [IdleLoop EXCEPT !.caught = caught]]
    IN  IF S.pendingChunk # NoChunk /\ ~(S.paused \/ S.offline)
        THEN BeginAttempt([S0 EXCEPT !.pendingChunk = NoChunk,
                                     !.loops[l].fromPending = TRUE],
                          l, S.pendingChunk, FALSE)
        ELSE WhileHead(S0, l)

\* sendChunks() after sendChunkWithRetries(chunk) has resolved.
AfterSend(S, l, chunkUploadSuccess) ==
    IF S.loops[l].fromPending
    THEN WhileHead(IF S.success /\ chunkUploadSuccess
                   THEN Emit(S, Ev("success", S.chunkCount, 0, 0, NoChunk, 0))
                   ELSE S, l)
    ELSE IF S.iter.error
         THEN [DispatchError(S, "errorRead", 0) EXCEPT !.loops[l] = IdleLoop]
         ELSE IF chunkUploadSuccess
              THEN WhileHead([S EXCEPT !.success = FALSE], l)
              ELSE [S EXCEPT !.success = FALSE, !.loops[l] = IdleLoop]

\* AfterDone with the bug of not recording this.success.
AfterDoneKeepsLooping(S, l) ==
    IF S.iter.error
    THEN [DispatchError(S, "errorRead", 0) EXCEPT !.loops[l] = IdleLoop]
    ELSE WhileHead(Emit(S, Ev("success", S.chunkCount, 0, 0, NoChunk, 0)), l)

\* sendChunks() after chunkedIterator.next() has resolved to done.
AfterDone(S, l) ==
    IF S.iter.error
    THEN [DispatchError(S, "errorRead", 0) EXCEPT !.loops[l] = IdleLoop]
    ELSE WhileHead(Emit([S EXCEPT !.success = TRUE],
                        Ev("success", S.chunkCount, 0, 0, NoChunk, 0)), l)

(* ------------------------- sendChunkWithRetries ------------------------ *)
\* dynamicSize with the two thresholds included in the resizing intervals.
dynamicSizeInclusive(size, T, o) ==
    LET unevenChunkSize ==
            IF T <= 10 THEN Min(size * 2, o.maxChunkSize)
            ELSE IF T >= 30 THEN Max(size \div 2, o.minChunkSize)
            ELSE size
    IN  CeilDiv(unevenChunkSize, ALIGN) * ALIGN

\* dynamicSize without the rounding to a multiple of 256.
dynamicSizeUnaligned(size, T, o) ==
    IF T < 10 THEN Min(size * 2, o.maxChunkSize)
    ELSE IF T > 30 THEN Max(size \div 2, o.minChunkSize)
    ELSE size

\* The chunk size successfulChunkUploadCb sets with dynamicChunkSize on, after a
\* chunk that took T seconds.
dynamicSize(size, T, o) ==
    LET unevenChunkSize ==
            IF T < 10 THEN Min(size * 2, o.maxChunkSize)
            ELSE IF T > 30 THEN Max(size \div 2, o.minChunkSize)
            ELSE size
    IN  CeilDiv(unevenChunkSize, ALIGN) * ALIGN

successfulChunkUploadCb(S, l, res, T) ==
    LET o == S.options
        cc == S.chunkCount + 1
        ncrs == S.nextChunkRangeStart + chunkByteSize(S)
        newSize == IF o.dynamicChunkSize THEN dynamicSize(S.chunkSize, T, o)
                   ELSE S.chunkSize
    IN  [Emit(S, Ev("chunkSuccess", S.chunkCount, S.attemptCount, S.chunkSize,
                    S.loops[l].chunk, res.statusCode)) EXCEPT
            !.env.lastChunkInterval = T,
            !.attemptCount = 0,
            !.chunkCount = cc,
            !.nextChunkRangeStart = ncrs,
            !.chunkSize = newSize,
            !.totalChunks = IF o.dynamicChunkSize
                            THEN cc + CeilDiv(o.fileSize - ncrs, newSize * KiB)
                            ELSE @]

\* failedChunkUploadCb without its progress event.
failedChunkUploadCbNoRewind(S, l, res) == DispatchError(S, "error", res.statusCode)

failedChunkUploadCb(S, l, res) ==
    DispatchError(DispatchProgress(S, CapAt100(successfulPercentage(S))),
                  "error", res.statusCode)

\* failedChunkUploadCb reads res.statusCode: with res undefined this throws a
\* TypeError after the progress event and before the error event is dispatched.  Thrown inside a retry timer's
\* callback it is an unhandled rejection and the promise sendChunks awaits is
\* never resolved; thrown in the call made by sendChunks it rejects sendChunks(),
\* which only the constructor's calls catch.
Throw(S, l) ==
    LET S0 == [DispatchProgress(S, CapAt100(successfulPercentage(S))) EXCEPT
                  !.env.thrown = TRUE, !.loops[l] = IdleLoop]
    IN  IF ~S.loops[l].viaTimer /\ S.loops[l].caught
        THEN DispatchError(S0, "errorEndpoint", 0)
        ELSE S0

retriableChunkUploadCb(S, l, res) ==
    [Emit(S, Ev("attemptFailure", S.chunkCount, S.options.attempts - S.attemptCount, 0,
                S.loops[l].chunk, res.statusCode)) EXCEPT !.loops[l].pc = "timer"]

\* Settle with the attempt limit tested before the success status.
SettleLimitFirst(S, l, res, T) ==
    LET chunk == S.loops[l].chunk
        o == S.options
        currentChunkEndByte == S.nextChunkRangeStart + BlobSize(chunk) - 1
        S0 == [S EXCEPT !.currentXhr = 0,
                        !.env.lastRes = res,
                        !.env.lastResAt = Len(S.log),
                        !.env.badResponse = @ \/ ~isSuccessfulChunkUpload(res)
                            \/ isIncompleteChunkUploadNeedingRetry(res, currentChunkEndByte),
                        !.env.faults = IF res.statusCode # 200 THEN @ + 1 ELSE @]
    IN  IF isIncompleteChunkUploadNeedingRetry(res, currentChunkEndByte)
        THEN retriableChunkUploadCb(S0, l, res)
        ELSE IF isFailedChunkUpload(res, o.retryCodes, S.attemptCount, o.attempts)
        THEN IF res = NoRes THEN Throw(S0, l)
             ELSE AfterSend(failedChunkUploadCb(S0, l, res), l, FALSE)
        ELSE IF isSuccessfulChunkUpload(res)
        THEN AfterSend(successfulChunkUploadCb(S0, l, res, T), l, TRUE)
        ELSE retriableChunkUploadCb(S0, l, res)

\* sendChunkWithRetries once the request has settled with res (NoRes: rejected
\* with an error that has no statusCode), T seconds after lastChunkStart.
Settle(S, l, res, T) ==
    LET chunk == S.loops[l].chunk
        o == S.options
        currentChunkEndByte == S.nextChunkRangeStart + BlobSize(chunk) - 1
        S0 == [S EXCEPT !.currentXhr = 0,
                        !.env.lastRes = res,
                        !.env.lastResAt = Len(S.log),
                        !.env.badResponse = @ \/ ~isSuccessfulChunkUpload(res)
                            \/ isIncompleteChunkUploadNeedingRetry(res, currentChunkEndByte),
                        !.env.faults = IF res.statusCode # 200 THEN @ + 1 ELSE @]
    IN  IF isIncompleteChunkUploadNeedingRetry(res, currentChunkEndByte)
        THEN retriableChunkUploadCb(S0, l, res)
        ELSE IF isSuccessfulChunkUpload(res)
        THEN AfterSend(successfulChunkUploadCb(S0, l, res, T), l, TRUE)
        ELSE IF isFailedChunkUpload(res, o.retryCodes, S.attemptCount, o.attempts)
        THEN IF res = NoRes THEN Throw(S0, l)
             ELSE AfterSend(failedChunkUploadCb(S0, l, res), l, FALSE)
        ELSE retriableChunkUploadCb(S0, l, res)

\* The retry timer's callback.
RetryTimer(S, l) ==
    IF S.paused \/ S.offline
    THEN AfterSend([S EXCEPT !.pendingChunk = S.loops[l].chunk,
                             !.env.parked = [at |-> Len(S.log), chunk |-> S.loops[l].chunk,
                                             rs |-> S.loops[l].rs,
                                             yielded |-> S.env.yielded,
                                             over |-> S.env.parked.over
                                                        \/ S.pendingChunk # NoChunk]],
                   l, FALSE)
    ELSE BeginAttempt(S, l, S.loops[l].chunk, TRUE)

\* sendChunk with an exclusive end byte in Content-Range.
sendChunkEndExclusive(S, l) ==
    LET chunk == S.loops[l].chunk
        rangeStart == S.loops[l].rs
        rangeEnd == rangeStart + BlobSize(chunk)
    IN  [Emit(S, Ev("attempt", S.chunkCount, rangeStart, rangeEnd, chunk, 0)) EXCEPT
            !.currentXhr = l, !.loops[l].pc = "xhr", !.loops[l].loaded = 0,
            !.env.attemptPaused = @ \/ S.paused,
            !.env.attemptOffline = @ \/ S.offline]

\* sendChunk after the headers have resolved: the attempt event and the request.
sendChunk(S, l) ==
    LET chunk == S.loops[l].chunk
        rangeStart == S.loops[l].rs
        rangeEnd == rangeStart + BlobSize(chunk) - 1
    IN  [Emit(S, Ev("attempt", S.chunkCount, rangeStart, rangeEnd, chunk, 0)) EXCEPT
            !.currentXhr = l, !.loops[l].pc = "xhr", !.loops[l].loaded = 0,
            !.env.attemptPaused = @ \/ S.paused,
            !.env.attemptOffline = @ \/ S.offline]

(* ---------------------------- chunk sources ---------------------------- *)
\* PeelChunk with the bug of yielding the slice and forgetting the rest.
PeelChunkDropsRest(it, cbs) ==
    IF it.held = NoChunk THEN [it |-> [it EXCEPT !.st = "read"], out |-> NoChunk]
    ELSE IF BlobSize(it.held) < cbs
    THEN [it |-> [it EXCEPT !.st = "read"], out |-> NoChunk]
    ELSE [it |-> [it EXCEPT !.held = NoChunk, !.st = "read"],
          out |-> BlobSliceTo(it.held, cbs)]

\* ChunkedStreamIterable's inner loop: peel one chunk off the held blob.
\* out is the chunk yielded, NoChunk when the loop breaks to read more.
PeelChunk(it, cbs) ==
    IF it.held = NoChunk THEN [it |-> [it EXCEPT !.st = "read"], out |-> NoChunk]
    ELSE IF BlobSize(it.held) = cbs
    THEN [it |-> [it EXCEPT !.held = NoChunk, !.st = "read"], out |-> it.held]
    ELSE IF BlobSize(it.held) < cbs
    THEN [it |-> [it EXCEPT !.st = "read"], out |-> NoChunk]
    ELSE [it |-> [it EXCEPT !.held = BlobSliceFrom(it.held, cbs), !.st = "inner"],
          out |-> BlobSliceTo(it.held, cbs)]

\* The generator's code after reader.read() or after a yield, up to its next
\* yield, return or read: out as above, done when the generator has returned.
StreamAdvance(it, result, read, cbs) ==
    IF it.st = "inner" THEN PeelChunk(it, cbs) @@ [done |-> FALSE]
    ELSE IF it.st \in {"yielded", "fin"}
    THEN [it |-> [it EXCEPT !.st = "fin"], out |-> NoChunk, done |-> TRUE]
    ELSE IF result = "done" \/ result = "throw"
    THEN [it |-> [it EXCEPT !.held = NoChunk,
                            !.error = (result = "throw"),
                            !.st = IF it.held = NoChunk THEN "fin" ELSE "yielded"],
          out |-> it.held, done |-> it.held = NoChunk]
    ELSE PeelChunk([it EXCEPT !.held = BlobConcat(it.held, <<it.pos, read>>),
                              !.pos = @ + read], cbs) @@ [done |-> FALSE]

\* ChunkedFileIterable's getChunk and loop body.
FileAdvance(it, fileSize, cbs) ==
    IF it.pos >= fileSize
    THEN [it |-> [it EXCEPT !.st = "fin"], out |-> NoChunk, done |-> TRUE]
    ELSE LET length == Min(cbs, fileSize - it.pos)
         IN  [it |-> [it EXCEPT !.pos = @ + length], out |-> <<it.pos, length>>,
              done |-> FALSE]

\* The oldest waiting next() gets r; sendChunks goes on with it.
Deliver(S, r) ==
    LET l == Head(S.nextQueue)
        S0 == [S EXCEPT !.iter = r.it]
        S1 == [S0 EXCEPT !.nextQueue = Tail(@)]
    IN  IF r.done THEN AfterDone(S1, l)
        ELSE IF r.out # NoChunk
        THEN BeginAttempt([S1 EXCEPT !.env.yielded = @ + 1,
                                     !.env.carried = @ \/ S.attemptCount # 0],
                          l, r.out, FALSE)
        ELSE S0

(* ------------------------------- actions ------------------------------- *)
FreeLoops == {l \in LoopIds : loops[l].pc = "idle"}
FreeLoop == CHOOSE l \in FreeLoops : \A m \in FreeLoops : l <= m

\* getEndpoint() resolved.  The constructor's .then(() => this.sendChunks()) hands
\* sendChunks' promise to its .catch; the fallback's .then(() => { this.sendChunks(); })
\* drops it.
EndpointResolved ==
    /\ endpointPending > 0
    /\ FreeLoops # {}
    /\ Commit(sendChunks([Session EXCEPT
                              !.endpointPending = @ - 1,
                              !.env.resolved =
                                  IF @.at = -1
                                  THEN [at |-> Len(log),
                                        others |-> Cardinality(LoopIds \ FreeLoops)]
                                  ELSE @],
                         FreeLoop, iter.kind = "stream"))

\* new UpChunk(raw): it throws, or it leaves a session and the getEndpoint() promise.
Construct ==
    /\ ctor = "new"
    /\ IF ConstructorThrows(raw)
       THEN /\ ctor' = "thrown"
            /\ UNCHANGED <<options, chunkSize, totalChunks, endpointPending>>
       ELSE /\ ctor' = "done"
            /\ options' = OptionsOf(raw)
            /\ chunkSize' = OptionsOf(raw).chunkSize
            /\ totalChunks' = CeilDiv(OptionsOf(raw).fileSize, OptionsOf(raw).chunkSize * KiB)
            /\ endpointPending' = 1
    /\ UNCHANGED <<raw, chunkCount, attemptCount, offline, paused, success,
                   nextChunkRangeStart, pendingChunk, currentXhr, iter, fallbackArmed,
                   loops, nextQueue, log, progress, env>>

\* getEndpoint() rejected (the endpoint function's promise rejected, or it resolved
\* to a value that is not a string): .catch dispatches 'error'
EndpointRejected ==
    /\ endpointPending > 0
    /\ env.faults < env.budget
    /\ Commit(DispatchError([Session EXCEPT !.endpointPending = @ - 1,
                                            !.env.faults = @ + 1,
                                            !.env.rejectedAt =
                                                IF @ = -1 THEN Len(log) ELSE @],
                            "errorEndpoint", 0))

Pause ==
    /\ env.faults < env.budget
    /\ Commit([Session EXCEPT !.paused = TRUE, !.env.faults = @ + 1,
                              !.env.interrupted = TRUE])

Abort ==
    /\ env.faults < env.budget
    /\ Commit([Session EXCEPT !.paused = TRUE, !.env.faults = @ + 1,
                              !.env.interrupted = TRUE,
                              !.env.abortedAt =
                                  IF @ = -1 /\ \E l \in LoopIds :
                                        loops[l].pc = "xhr" /\ ~loops[l].aborted
                                  THEN Len(log) ELSE @,
                              !.loops = [l \in LoopIds |->
                                  IF l = currentXhr /\ @[l].pc = "xhr"
                                  THEN [@[l] EXCEPT !.aborted = TRUE] ELSE @[l]]])

\* resume() without its test of _paused.
resumeUnchecked(S, l) ==
    sendChunks([S EXCEPT !.paused = FALSE, !.env.resumed = TRUE], l, FALSE)

\* resume(); l is the slot of the sendChunks() invocation it starts.
resume(S, l) ==
    IF S.paused
    THEN sendChunks([S EXCEPT !.paused = FALSE, !.env.resumed = TRUE], l, FALSE)
    ELSE S

Resume ==
    /\ paused
    /\ FreeLoops # {}
    /\ Commit(resume(Session, FreeLoop))

\* resume() on a session that is not paused
ResumeIdle ==
    /\ ~paused
    /\ FreeLoops # {}
    /\ Commit([resume(Session, FreeLoop) EXCEPT !.env.redundant = "resume"])

\* pause() on a session that is paused
PauseAgain ==
    /\ paused
    /\ Commit([Session EXCEPT !.paused = TRUE, !.env.redundant = "pause"])

Online ==
    /\ offline
    /\ FreeLoops # {}
    /\ Commit(sendChunks([Session EXCEPT !.offline = FALSE], FreeLoop, FALSE))

Offline ==
    /\ ~offline
    /\ env.faults < env.budget
    /\ Commit([Session EXCEPT !.offline = TRUE, !.env.faults = @ + 1,
                              !.env.interrupted = TRUE])

\* reader.read() resolves with a value of n bytes, n one of Sizes: the bytes the
\* file still has, n at most; a value of no bytes at any point of the stream
StreamReadOf(Sizes) ==
    /\ nextQueue # <<>> /\ iter.kind = "stream" /\ iter.st = "read"
    /\ \E n \in Sizes :
          LET read == Min(n, options.fileSize - iter.pos)
          IN  /\ read > 0 \/ n = 0
              /\ Commit(Deliver(Session, StreamAdvance(iter, "value", read, chunkByteSize(Session))))

\* reader.read() resolves with a value of n > 0 bytes
StreamRead == StreamReadOf(ReadSizes)

\* reader.read() resolves with done
StreamDone ==
    /\ nextQueue # <<>> /\ iter.kind = "stream" /\ iter.st = "read"
    /\ iter.pos = options.fileSize
    /\ Commit(Deliver(Session, StreamAdvance(iter, "done", 0, chunkByteSize(Session))))

\* reader.read() rejects
StreamThrows ==
    /\ nextQueue # <<>> /\ iter.kind = "stream" /\ iter.st = "read"
    /\ env.faults < env.budget
    /\ Commit(Deliver([Session EXCEPT !.env.readErrorAt = iter.pos, !.env.faults = @ + 1],
                      StreamAdvance(iter, "throw", 0, chunkByteSize(Session))))

\* next() on the generator suspended at a yield, or finished
StreamResume ==
    /\ nextQueue # <<>> /\ iter.kind = "stream" /\ iter.st # "read"
    /\ Commit(Deliver(Session, StreamAdvance(iter, "none", 0, chunkByteSize(Session))))

\* next() on the ChunkedFileIterable's iterator
FileNext ==
    /\ nextQueue # <<>> /\ iter.kind = "file"
    /\ Commit(Deliver(Session, FileAdvance(iter, options.fileSize, chunkByteSize(Session))))

\* next() on the generator the fallback has abandoned
StaleNext(l) ==
    /\ loops[l].pc = "nextStale"
    /\ Commit(AfterDone(Session, l))

HeadersResolved(l) ==
    /\ loops[l].pc = "hdr"
    /\ Commit(sendChunk(Session, l))

\* What a request can settle with: a response, xhr's error (statusCode 0), or
\* an error without a statusCode.  A 308 may echo a Range that ends one byte
\* short of the chunk sent, or at its last byte.
SuccessResponses(l) ==
    [statusCode : {200, 308}, range : {NoRange}]
        \cup {[statusCode |-> 308, range |-> loops[l].rs + BlobSize(loops[l].chunk) - 1]}

Responses(l) ==
    [statusCode : Statuses, range : {NoRange}]
        \cup {NoRes}
        \cup [statusCode : {308}, range : {loops[l].rs + BlobSize(loops[l].chunk) - 2,
                                           loops[l].rs + BlobSize(loops[l].chunk) - 1}]

SettlesWith(l, R) ==
    /\ loops[l].pc = "xhr"
    /\ \E T \in (IF options.dynamicChunkSize THEN Elapsed ELSE {20}) :
          \E res \in R :
             /\ loops[l].aborted => res = NoRes
             /\ res.statusCode # 200 => env.faults < env.budget
             /\ Commit(Settle(Session, l, res, T))

\* the request of loop l settles
RequestSettles(l) == SettlesWith(l, Responses(l))

\* the request of loop l is answered with a success status that covers the chunk
RequestSucceeds(l) ==
    /\ loops[l].pc = "xhr"
    /\ \E T \in (IF options.dynamicChunkSize THEN Elapsed ELSE {20}) :
          \E res \in SuccessResponses(l) : Commit(Settle(Session, l, res, T))

\* upload.onprogress of the request of loop l: loaded grows from event to event
UploadProgress(l) ==
    /\ loops[l].pc = "xhr" /\ ~loops[l].aborted
    /\ \E e \in ProgressEvents :
          /\ e.loaded > loops[l].loaded
          /\ Commit([DispatchProgress(Session, onprogress(Session, e)) EXCEPT
                        !.loops[l].loaded = e.loaded])

TimerFires(l) ==
    /\ loops[l].pc = "timer"
    /\ Commit(RetryTimer(Session, l))

\* upload.onprogress writes only `progress`, which no guard reads: the
\* specifications that the claims about progress are checked under take
\* UploadProgress, Next interleaves everything else.
Next ==
    \/ EndpointResolved
    \/ EndpointRejected
    \/ Pause
    \/ Abort
    \/ Resume
    \/ Online
    \/ Offline
    \/ StreamRead
    \/ StreamDone
    \/ StreamThrows
    \/ StreamResume
    \/ FileNext
    \/ \E l \in LoopIds : StaleNext(l)
    \/ \E l \in LoopIds : HeadersResolved(l)
    \/ \E l \in LoopIds : RequestSettles(l)
    \/ \E l \in LoopIds : TimerFires(l)

Spec == Init /\ [][Next]_vars

\* Every request is answered with a success, nobody pauses, the network stays up.
NextHappy ==
    \/ EndpointResolved
    \/ StreamRead
    \/ StreamDone
    \/ StreamThrows
    \/ StreamResume
    \/ FileNext
    \/ \E l \in LoopIds : HeadersResolved(l)
    \/ \E l \in LoopIds : RequestSucceeds(l)
    \/ \E l \in LoopIds : UploadProgress(l)

SpecHappy == Init /\ [][NextHappy]_vars

\* Uploads over SizeOptionSpace: reads succeed, requests are answered with a
\* success after any of the elapsed times.
NextSizes ==
    \/ EndpointResolved
    \/ StreamRead
    \/ StreamDone
    \/ StreamResume
    \/ \E l \in LoopIds : HeadersResolved(l)
    \/ \E l \in LoopIds : RequestSucceeds(l)

SpecSizes == InitSizes /\ [][NextSizes]_vars

\* The same uploads over ResizeOptionSpace.
SpecResize == InitResize /\ [][NextSizes]_vars

\* The streaming source over a stream that splits the file into values of any
\* of AnyReadSizes; every request is answered with a success.
NextSources ==
    \/ EndpointResolved
    \/ StreamReadOf(AnyReadSizes)
    \/ StreamDone
    \/ StreamResume
    \/ \E l \in LoopIds : HeadersResolved(l)
    \/ \E l \in LoopIds : RequestSucceeds(l)

SpecSources == Init /\ [][NextSources]_vars

\* Requests settle in any way; nobody pauses, the network stays up, reads succeed.
NextRetry ==
    \/ EndpointResolved
    \/ StreamRead
    \/ StreamDone
    \/ StreamResume
    \/ \E l \in LoopIds : HeadersResolved(l)
    \/ \E l \in LoopIds : RequestSettles(l)
    \/ \E l \in LoopIds : UploadProgress(l)
    \/ \E l \in LoopIds : TimerFires(l)

SpecRetry == Init /\ [][NextRetry]_vars

\* The same over ClassifyOptionSpace.
SpecClassify == InitClassify /\ [][NextRetry]_vars

\* As NextRetry, and the caller pauses and resumes.
NextPause ==
    \/ EndpointResolved
    \/ Pause
    \/ Resume
    \/ StreamRead
    \/ StreamDone
    \/ StreamResume
    \/ \E l \in LoopIds : HeadersResolved(l)
    \/ \E l \in LoopIds : RequestSettles(l)
    \/ \E l \in LoopIds : TimerFires(l)

SpecPause == Init /\ [][NextPause]_vars

\* The caller pauses and resumes, a paused session and one that is not paused
\* alike; requests are answered 200 or 503.
NextCalls ==
    \/ EndpointResolved
    \/ Pause
    \/ PauseAgain
    \/ Resume
    \/ ResumeIdle
    \/ StreamRead
    \/ StreamDone
    \/ StreamResume
    \/ \E l \in LoopIds : HeadersResolved(l)
    \/ \E l \in LoopIds : SettlesWith(l, [statusCode : {200, 503}, range : {NoRange}])
    \/ \E l \in LoopIds : TimerFires(l)

SpecCalls == InitCalls /\ [][NextCalls]_vars

\* The network goes down and comes back; every request is answered with a
\* success, reads succeed, nobody pauses.
NextOffline ==
    \/ EndpointResolved
    \/ Offline
    \/ Online
    \/ StreamRead
    \/ StreamDone
    \/ StreamResume
    \/ \E l \in LoopIds : HeadersResolved(l)
    \/ \E l \in LoopIds : RequestSucceeds(l)

SpecOffline == Init /\ [][NextOffline]_vars

\* Pauses and resumes during retries, over ParkOptionSpace.
SpecPark == InitPark /\ [][NextPause]_vars

\* The constructor on any of the option objects, and the endpoint promise after it.
NextOptions ==
    \/ Construct
    \/ EndpointResolved
    \/ EndpointRejected

SpecOptions == InitOptions /\ [][NextOptions]_vars

(* ------------------------ reading the log ------------------------------ *)
Events(name) == SelectSeq(log, LAMBDA e : e.ev = name)
EventsOf(name, c) == SelectSeq(log, LAMBDA e : e.ev = name /\ e.chunk = c)
Count(name) == Len(Events(name))
CountOf(name, c) == Len(EventsOf(name, c))
Emitted(name) == \E i \in DOMAIN log : log[i].ev = name
IsError(e) == e.ev \in {"error", "errorRead", "errorEndpoint"}
ErrorCount == Len(SelectSeq(log, IsError))
Chunks == {log[i].chunk : i \in DOMAIN log}
FileSize == options.fileSize
\* Nothing is pending: no promise, request or timer of the session is outstanding.
Quiescent == endpointPending = 0 /\ \A l \in LoopIds : loops[l].pc = "idle"
\* The bodies of the acknowledged requests, in the order of their acknowledgement.
AckedBodies == [i \in 1..Count("chunkSuccess") |-> Events("chunkSuccess")[i].body]
\* The blobs, one after the other, are the file's bytes [0, end): each starts at
\* the byte where the one before it ended.
BlobsEnd(blobs) ==
    IF blobs = <<>> THEN 0 ELSE blobs[Len(blobs)][1] + blobs[Len(blobs)][2]
Tiles(blobs, end) ==
    /\ \A i \in DOMAIN blobs :
          blobs[i][1] = (IF i = 1 THEN 0 ELSE blobs[i - 1][1] + blobs[i - 1][2])
    /\ end = BlobsEnd(blobs)
NoReadError == env.readErrorAt = -1
FailuresAreRetryCodes(c) ==
    \A i \in DOMAIN log :
        log[i].ev = "attemptFailure" /\ log[i].chunk = c
            => log[i].status \in options.retryCodes

(* ------------------------------ claims --------------------------------- *)
\* C1: when every request is answered with a success status, the bodies of the
\* acknowledged requests, concatenated in order, are at every moment a prefix of
\* the source's bytes and, once success is emitted, exactly the source's bytes.
\* This holds for the streaming source (no read fails), for the buffered source
\* (the stream's first read fails and useLargeFileWorkaround is on) and with
\* dynamicChunkSize on.
C1_BodiesReproduceSource ==
    env.readErrorAt \in {-1, 0} =>
        /\ Tiles(AckedBodies, BlobsEnd(AckedBodies))
        /\ BlobsEnd(AckedBodies) <= FileSize
        /\ Emitted("success") => Tiles(AckedBodies, FileSize)

C1_Witness ==
    /\ Emitted("success")
    /\ options.dynamicChunkSize
    /\ Count("chunkSuccess") = 2
    /\ AckedBodies[1][2] # AckedBodies[2][2]
    /\ iter.kind = "stream"

\* C2: with a fixed chunk size of C bytes, a source of F bytes and every response
\* a success, request i (from 0) carries Content-Range bytes
\* i*C-(min((i+1)*C, F) - 1)/F, and ceil(F/C) requests have been made when success
\* is emitted.
C2_FixedSizeRanges ==
    LET C == options.chunkSize * KiB
        attempt == Events("attempt")
    IN  ~options.dynamicChunkSize /\ NoReadError =>
            /\ \A i \in DOMAIN attempt :
                  /\ attempt[i].a = (i - 1) * C
                  /\ attempt[i].b = Min(i * C, FileSize) - 1
            /\ Len(attempt) <= CeilDiv(FileSize, C)
            /\ Emitted("success") => Len(attempt) = CeilDiv(FileSize, C)

C2_Witness ==
    /\ Emitted("success")
    /\ ~options.dynamicChunkSize
    /\ Count("attempt") = 2
    /\ Events("attempt")[2].b - Events("attempt")[2].a + 1 < options.chunkSize * KiB

\* C3: on the happy path (every response a success, no pause, no offline, no
\* failed read) a source that yields n chunks leads to no attemptFailure and no
\* error event, and when the session has come to rest it has emitted exactly n
\* attempt events, n chunkSuccess events and one success event, the success
\* event last.
C3_HappyPathEvents ==
    NoReadError =>
        /\ ~Emitted("attemptFailure")
        /\ ErrorCount = 0
        /\ Count("success") <= 1
        /\ Count("chunkSuccess") <= Count("attempt")
        /\ Count("attempt") <= env.yielded
        /\ Emitted("success") =>
              /\ log[Len(log)].ev = "success"
              /\ Count("attempt") = env.yielded
              /\ Count("chunkSuccess") = env.yielded
        /\ Quiescent => Count("success") = 1

C3_Witness ==
    /\ Quiescent
    /\ NoReadError
    /\ env.yielded = 2
    /\ Count("success") = 1
    /\ Count("attempt") = 2

\* C4: for every k with 0 <= k < attempts, a chunk whose first k attempts are
\* answered with a status in retryCodes and whose next attempt is answered with a
\* success status produces k attemptFailure events and one chunkSuccess event and
\* no error event: a status in retryCodes is fatal only on the last permitted
\* attempt, and a session that has come to rest without an error has emitted
\* success.
C4_RetryThenSuccess ==
    /\ \A i \in DOMAIN log :
          IsError(log[i]) /\ log[i].status \in options.retryCodes
              => log[i].a >= options.attempts
    /\ \A c \in Chunks :
          CountOf("chunkSuccess", c) > 0 /\ FailuresAreRetryCodes(c) =>
              /\ CountOf("chunkSuccess", c) = 1
              /\ CountOf("attemptFailure", c) = CountOf("attempt", c) - 1
              /\ CountOf("attemptFailure", c) < options.attempts
              /\ CountOf("error", c) = 0
    /\ Quiescent /\ ErrorCount = 0 /\ ~env.thrown => Count("success") = 1

C4_Witness ==
    /\ Count("success") = 1
    /\ CountOf("attemptFailure", 0) = 1
    /\ EventsOf("attemptFailure", 0)[1].status = 503
    /\ CountOf("attempt", 0) = 2
    /\ CountOf("chunkSuccess", 0) = 1

\* C5: a chunk whose attempts are answered `attempts` consecutive times with a
\* status in retryCodes produces `attempts` attempt events, `attempts - 1`
\* attemptFailure events and one error event that carries the chunk's index and
\* attempts = `attempts`; the error is the last thing the session does and
\* success is never emitted.  An attemptFailure for a status in retryCodes always
\* leaves at least one attempt.
C5_RetriesExhausted ==
    /\ \A i \in DOMAIN log :
          log[i].ev = "attemptFailure" /\ log[i].status \in options.retryCodes
              => log[i].a >= 1
    /\ \A i \in DOMAIN log :
          (/\ log[i].ev = "error"
           /\ log[i].status \in options.retryCodes
           /\ FailuresAreRetryCodes(log[i].chunk)) =>
              /\ log[i].a = options.attempts
              /\ CountOf("attempt", log[i].chunk) = options.attempts
              /\ CountOf("attemptFailure", log[i].chunk) = options.attempts - 1
              /\ i = Len(log)
              /\ ErrorCount = 1
              /\ ~Emitted("success")
              /\ Quiescent

C5_Witness ==
    /\ options.attempts = 2
    /\ Quiescent
    /\ Len(log) = 4
    /\ log[4].ev = "error" /\ log[4].status = 503 /\ log[4].a = 2 /\ log[4].chunk = 0
    /\ log[2].ev = "attemptFailure" /\ log[2].status = 503

\* C6: a request that settles with no response is retriable and consumes one
\* attempt; when `attempts` consecutive attempts of a chunk have all ended with no
\* response, the session has emitted exactly one error event once it has come to
\* rest.
C6_NoResponseBudget ==
    /\ \A i \in DOMAIN log :
          log[i].ev = "attemptFailure" /\ log[i].status = -1 => log[i].a >= 1
    /\ \A c \in Chunks :
          (/\ Quiescent
           /\ CountOf("attempt", c) = options.attempts
           /\ CountOf("attemptFailure", c) = options.attempts - 1
           /\ \A i \in DOMAIN log :
                 log[i].ev = "attemptFailure" /\ log[i].chunk = c => log[i].status = -1
           /\ CountOf("chunkSuccess", c) = 0)
              => ErrorCount = 1

\* C7: at most one chunk request is in flight at any time.
InFlight == {l \in LoopIds : loops[l].pc = "xhr" /\ ~loops[l].aborted}
C7_OneRequestInFlight == Cardinality(InFlight) <= 1

\* C8: chunks are attempted in ascending byte-offset order (a later request of
\* another chunk starts at a higher byte), and no chunk's request is out while
\* another chunk is still between its first attempt and its success or parking.
Unresolved == {l \in LoopIds : loops[l].pc \in {"hdr", "xhr", "timer"}}
C8_AscendingOneAtATime ==
    /\ \A i, j \in DOMAIN log :
          (/\ i < j
           /\ log[i].ev = "attempt" /\ log[j].ev = "attempt"
           /\ log[i].body # log[j].body)
              => log[i].a < log[j].a
    /\ \A l, m \in Unresolved :
          loops[l].pc = "xhr" /\ l # m => loops[l].chunk = loops[m].chunk

\* C9: no session emits both a success event and an error event.
C9_SuccessXorError == ~(Emitted("success") /\ ErrorCount > 0)

\* C10: a session in which nothing is pending any more (every read, request and
\* timer has completed) and which is neither paused nor offline has emitted
\* success or error.
C10_RestIsTerminal ==
    Quiescent /\ ~paused /\ ~offline => Emitted("success") \/ ErrorCount > 0

\* C11: an error is surfaced once and the session halts: after an error event no
\* request is issued and no attempt, chunkSuccess, error or success event follows.
C11_ErrorHalts ==
    \A i, j \in DOMAIN log :
        i < j /\ IsError(log[i]) =>
            ~IsError(log[j]) /\ log[j].ev \notin {"attempt", "chunkSuccess", "success"}

\* C12: when abort() is called while a request is in flight and resume() is never
\* called, the session stays paused, no request stays in flight and no attempt or
\* chunkSuccess event follows the call.
C12_AbortStops ==
    env.abortedAt >= 0 /\ ~env.resumed =>
        /\ paused
        /\ InFlight = {}
        /\ \A j \in DOMAIN log :
              j > env.abortedAt => log[j].ev \notin {"attempt", "chunkSuccess"}

\* C13: in a run with pause() and resume() in which no error is met, the
\* acknowledged bodies are the source's bytes in order, each byte at most once;
\* once the run has come to rest resumed it has emitted success once and has sent
\* every byte; and when all responses were successes it made one request per
\* chunk, as the uninterrupted run does.
C13_PauseResumeSameBytes ==
    ErrorCount = 0 /\ ~env.thrown =>
        /\ Tiles(AckedBodies, BlobsEnd(AckedBodies))
        /\ BlobsEnd(AckedBodies) <= FileSize
        /\ Quiescent /\ ~paused => Count("success") = 1 /\ Tiles(AckedBodies, FileSize)
        /\ ~env.badResponse => Count("attempt") <= env.yielded

C15_ProgressInRange ==
    progress.last # NoProgress =>
        /\ progress.last[2] > 0
        /\ 0 <= progress.last[1]
        /\ progress.last[1] <= progress.last[2]

\* C16: a progress value of 100 is emitted only in sessions that end with
\* success: not in one that emits error, nor in one that comes to rest without
\* success.
C16_FullOnlyWithSuccess ==
    progress.full => ErrorCount = 0 /\ (Quiescent => Emitted("success"))

\* C16, amended: 100 is emitted only while the last chunk is in flight or after
\* it (every byte of the source has been handed to a request), possibly before
\* that chunk's response; and when the session fails, the progress value it
\* leaves is below 100.
C16_FullOnlyForLastChunk ==
    /\ progress.full => iter.pos = FileSize /\ iter.held = NoChunk
    /\ ErrorCount > 0 \/ env.thrown =>
          progress.last # NoProgress /\ progress.last[1] < progress.last[2]

C16_Witness ==
    /\ ErrorCount = 1
    /\ progress.full
    /\ progress.last = <<2, 3>>
    /\ Count("chunkSuccess") = 1

\* C17: in every reachable state chunkSize (KiB) is a positive multiple of 256
\* with minChunkSize <= chunkSize <= maxChunkSize, after any number of dynamic
\* resizes with any elapsed times.
C17_ChunkSizeValid ==
    /\ chunkSize > 0
    /\ chunkSize % ALIGN = 0
    /\ options.minChunkSize <= chunkSize
    /\ chunkSize <= options.maxChunkSize

C17_Witness ==
    /\ options.chunkSize = 768
    /\ Count("chunkSuccess") = 1
    /\ chunkSize = 512

\* The options the configuration rules out: each option that is given must
\* have the form and the range stated for it, the endpoint must be given.
InvalidOptions(o) ==
    LET given(x) == x.t # "undefined"
        number(x) == x.t = "number"
        min == IF given(o.minChunkSize) THEN o.minChunkSize.v ELSE DEFAULT_MIN_CHUNK_SIZE
        max == IF given(o.maxChunkSize) THEN o.maxChunkSize.v ELSE DEFAULT_MAX_CHUNK_SIZE
    IN  \/ ~given(o.endpoint) \/ o.endpoint = Str(0)
        \/ o.endpoint.t \notin {"string", "function"}
        \/ o.file.t # "File"
        \/ given(o.headers) /\ o.headers.t \notin {"object", "function"}
        \/ /\ given(o.chunkSize)
           /\ \/ ~number(o.chunkSize)
              \/ o.chunkSize.v <= 0 \/ o.chunkSize.v % 256 # 0
              \/ o.chunkSize.v < min \/ o.chunkSize.v > max
        \/ min % 256 # 0 \/ max % 256 # 0 \/ min > max
        \/ given(o.maxFileSize) /\ o.file.v > o.maxFileSize.v * 1024
        \/ given(o.attempts) /\ ~(number(o.attempts) /\ o.attempts.v > 0)
        \/ /\ given(o.delayBeforeAttempt) /\ number(o.delayBeforeAttempt)
           /\ o.delayBeforeAttempt.v < 0

NothingStarted ==
    /\ endpointPending = 0
    /\ iter = NewStreamIterable
    /\ log = <<>>
    /\ \A l \in LoopIds : loops[l] = IdleLoop

\* C18: constructing a session with an invalid option throws from the constructor,
\* and no endpoint resolution, source read or request is started.
C18_InvalidOptionsThrow ==
    ctor # "new" /\ InvalidOptions(raw) => ctor = "thrown" /\ NothingStarted

\* C19: when the endpoint resolver rejects or resolves to a non-string, the session
\* emits the 'Failed to get endpoint' error, and from then on no chunk is
\* attempted (no attempt event, no request) and success is never emitted.
C19_EndpointErrorStops ==
    env.rejectedAt >= 0 =>
        /\ Len(log) > env.rejectedAt /\ log[env.rejectedAt + 1].ev = "errorEndpoint"
        /\ \A j \in DOMAIN log :
              j > env.rejectedAt => log[j].ev \notin {"attempt", "success"}

\* The number of bytes in the first n acknowledged chunks.
RECURSIVE AckedBytes(_)
AckedBytes(n) == IF n = 0 THEN 0 ELSE AckedBodies[n][2] + AckedBytes(n - 1)

\* C20: nextChunkRangeStart increases, on each successful chunk, by exactly the
\* number of bytes in that chunk (so it is the number of bytes acknowledged), and
\* equals the source's byte length once success is emitted.
C20_RangeStartCountsBytes ==
    /\ nextChunkRangeStart = AckedBytes(Count("chunkSuccess"))
    /\ Emitted("success") => nextChunkRangeStart = FileSize

\* C21: retries stay within the attempt budget: no chunk is attempted more than
\* `attempts` times and every attemptFailure event carries attemptsLeft >= 1.
C21_RetriesWithinBudget ==
    /\ \A i \in DOMAIN log : log[i].ev = "attemptFailure" => log[i].a >= 1
    /\ \A c \in Chunks : CountOf("attempt", c) <= options.attempts

\* C22: while the session is paused no new attempt begins: no attempt event is
\* emitted in a state where paused is true.
C22_NoAttemptWhilePaused == ~env.attemptPaused

\* C23: a session that goes offline and comes back online, all responses being
\* successes, completes without a call to resume(): no chunk is skipped or sent
\* twice (one request per chunk the source yields, the acknowledged bodies are
\* the source's bytes in order), and once nothing is pending and the session is
\* online it has emitted success once and has sent every byte.
C23_OnlineResumes ==
    /\ Count("attempt") + Cardinality({l \in LoopIds : loops[l].pc = "hdr"}) = env.yielded
    /\ Tiles(AckedBodies, BlobsEnd(AckedBodies))
    /\ BlobsEnd(AckedBodies) <= FileSize
    /\ Quiescent /\ ~offline => Count("success") = 1 /\ Tiles(AckedBodies, FileSize)

\* C24: success is terminal and emitted at most once: after a success event no
\* success, attempt (request), chunkSuccess, attemptFailure or error event follows.
C24_SuccessTerminal ==
    \A i, j \in DOMAIN log :
        i < j /\ log[i].ev = "success" =>
            /\ ~IsError(log[j])
            /\ log[j].ev \notin {"success", "attempt", "chunkSuccess", "attemptFailure"}

\* C25: a response is treated as an incomplete upload needing retry exactly when
\* it is a 308 with a Range header whose end byte is below the inclusive end byte
\* of the chunk sent: then attemptFailure is emitted, and neither the offset nor
\* the chunk index advances, and the next request is the same chunk with the same
\* Content-Range.  Any other 308 is a success, and no other response with a
\* success status leads to a retry.
C25_IncompleteExactly ==
    /\ env.lastResAt >= 1 /\ Len(log) > env.lastResAt =>
          LET sent == log[env.lastResAt]
              e == log[env.lastResAt + 1]
              res == env.lastRes
              incomplete == /\ res.statusCode = 308 /\ res.range # NoRange
                            /\ res.range < sent.b
          IN  /\ sent.ev = "attempt"
              /\ incomplete => e.ev = "attemptFailure" /\ e.status = 308
              /\ ~incomplete /\ res.statusCode = 308 => e.ev = "chunkSuccess"
              /\ ~incomplete /\ e.ev = "attemptFailure" =>
                    res = NoRes \/ res.statusCode \in options.retryCodes
    /\ \A i \in DOMAIN log :
          log[i].ev = "attemptFailure" /\ log[i].status = 308 =>
              /\ i > 1 /\ log[i - 1].ev = "attempt" /\ log[i - 1].chunk = log[i].chunk
              /\ i = Len(log) =>
                    nextChunkRangeStart = log[i - 1].a /\ chunkCount = log[i].chunk
              /\ i < Len(log) =>
                    /\ log[i + 1].ev = "attempt"
                    /\ log[i + 1].chunk = log[i - 1].chunk
                    /\ log[i + 1].a = log[i - 1].a /\ log[i + 1].b = log[i - 1].b
                    /\ log[i + 1].body = log[i - 1].body

\* A chunk answered 308 with a Range one byte short, resent, and answered 308 with
\* a Range that covers it.
C25_Witness ==
    /\ Count("attemptFailure") = 1 /\ Events("attemptFailure")[1].status = 308
    /\ Count("attempt") = 2 /\ Count("chunkSuccess") = 1
    /\ env.lastRes.statusCode = 308
    /\ env.lastRes.range = log[env.lastResAt].b

\* C26: a response whose status is neither a success status nor in retryCodes is
\* fatal at once: the session emits one error event carrying the chunk index, the
\* attempt count and the response's status, and nothing after it: no
\* attemptFailure, no retry, no success.  On the first attempt of a chunk the
\* attempt count is 1 and the chunk has no attemptFailure.
C26_FatalStatus ==
    LET res == env.lastRes IN
    /\ env.lastResAt >= 1
    /\ res # NoRes
    /\ res.statusCode \notin SUCCESSFUL_CHUNK_UPLOAD_CODES \cup options.retryCodes
    =>  LET sent == log[env.lastResAt]
            e == log[env.lastResAt + 1]
        IN  /\ Len(log) = env.lastResAt + 1
            /\ e.ev = "error" /\ e.status = res.statusCode /\ e.chunk = sent.chunk
            /\ e.a = CountOf("attempt", sent.chunk)
            /\ CountOf("attemptFailure", sent.chunk) = e.a - 1
            /\ ErrorCount = 1 /\ ~Emitted("success")
            /\ Quiescent

\* The second chunk answered 400 on its first attempt.
C26_Witness ==
    /\ env.lastRes.statusCode = 400
    /\ Count("chunkSuccess") = 1 /\ Count("attemptFailure") = 0
    /\ log[Len(log)].ev = "error" /\ log[Len(log)].a = 1 /\ log[Len(log)].chunk = 1

\* C27: a chunk whose retry delay expires while the session is paused or offline
\* is parked; until it is resent no new chunk is requested from the source, and
\* the first request after the parking is the parked chunk with the Content-Range
\* it had before.
C27_ParkedChunkFirst ==
    LET p == env.parked
        after == {j \in DOMAIN log : j > p.at /\ log[j].ev = "attempt"}
    IN  p.at >= 0 =>
          /\ after = {} => env.yielded = p.yielded /\ nextQueue = <<>>
          /\ \A j \in after :
                (\A k \in after : j <= k) =>
                    /\ log[j].body = p.chunk
                    /\ log[j].a = p.rs /\ log[j].b = p.rs + BlobSize(p.chunk) - 1

\* C28: a parked chunk is never overwritten or dropped: the retry timer stores a
\* chunk in pendingChunk only when it holds none, and once the session has been
\* resumed and nothing is pending no chunk is left parked.
C28_ParkedChunkKept ==
    /\ ~env.parked.over
    /\ Quiescent /\ ~paused /\ ~offline => pendingChunk = NoChunk

\* C29: when the source has met a read error and useLargeFileWorkaround is off,
\* the only error event of the session is the read error one and there is at most
\* one, the read is not retried, success is not emitted, and once nothing is
\* pending the error has been emitted.
C29_ReadErrorOnce ==
    env.readErrorAt >= 0 /\ ~options.useLargeFileWorkaround =>
        /\ \A i \in DOMAIN log : IsError(log[i]) => log[i].ev = "errorRead"
        /\ Count("errorRead") <= 1
        /\ iter.pos = env.readErrorAt
        /\ ~Emitted("success")
        /\ Quiescent => Count("errorRead") = 1

\* C30: with dynamicChunkSize on, after a chunk acknowledged T seconds after it
\* was started, chunkSize (KiB) is the old size doubled and capped at
\* maxChunkSize if T < 10, halved and floored at minChunkSize if T > 30, the old
\* size if 10 <= T <= 30, in each case rounded up to the next multiple of 256;
\* with dynamicChunkSize off chunkSize stays what the options gave.
C30_DynamicSizeRule ==
    LET done == {i \in DOMAIN log : log[i].ev = "chunkSuccess"}
        last == CHOOSE i \in done : \A j \in done : j <= i
        size == log[last].b
        T == env.lastChunkInterval
        \* twice the size the rule gives, to halve without a fraction
        twice == IF T < 10 THEN 2 * Min(2 * size, options.maxChunkSize)
                 ELSE IF T > 30 THEN Max(size, 2 * options.minChunkSize)
                 ELSE 2 * size
    IN  /\ ~options.dynamicChunkSize \/ done = {} => chunkSize = options.chunkSize
        /\ options.dynamicChunkSize /\ done # {} =>
              /\ chunkSize % 256 = 0
              /\ 2 * chunkSize >= twice
              /\ 2 * (chunkSize - 256) < twice

C30_Witness ==
    /\ options.dynamicChunkSize
    /\ Count("chunkSuccess") = 2
    /\ Events("chunkSuccess")[1].b = 768 /\ Events("chunkSuccess")[2].b = 768
    /\ env.lastChunkInterval = 40
    /\ chunkSize = 512

\* C31: with dynamicChunkSize on, after every acknowledged chunk totalChunks is
\* the number of completed chunks plus ceil(remainingBytes / chunkByteSize), with
\* remainingBytes the source bytes not yet acknowledged and chunkByteSize the new
\* size; it is never below the number of completed chunks and exceeds it whenever
\* bytes remain.
C31_TotalChunksEstimate ==
    LET n == Count("chunkSuccess")
        remainingBytes == FileSize - AckedBytes(n)
    IN  options.dynamicChunkSize /\ n > 0 =>
            /\ totalChunks = chunkCount + CeilDiv(remainingBytes, chunkSize * KiB)
            /\ totalChunks >= chunkCount
            /\ remainingBytes > 0 => totalChunks > chunkCount

\* C32: attemptCount counts the attempts of the chunk in hand: it is the number
\* of attempt events emitted for the current chunk index (plus an attempt begun
\* whose event is still to come), a chunkSuccess event carries the number of
\* attempt events emitted for its chunk, before and after a parking, and
\* attemptCount is 0 whenever a chunk fresh from the source begins its first
\* attempt.
C32_AttemptCount ==
    /\ attemptCount = CountOf("attempt", chunkCount)
                          + Cardinality({l \in LoopIds : loops[l].pc = "hdr"})
    /\ \A i \in DOMAIN log :
          log[i].ev = "chunkSuccess" =>
              log[i].a = Cardinality({j \in 1..i : log[j].ev = "attempt"
                                                     /\ log[j].chunk = log[i].chunk})
    /\ ~env.carried

\* C33: success is emitted only when the source is exhausted and every chunk it
\* produced has been acknowledged: in a state whose last event is success no
\* chunk is waiting for its headers, in flight, waiting for a retry or parked.
C33_SuccessOnlyWhenDone ==
    log # <<>> /\ log[Len(log)].ev = "success" =>
        /\ iter.st = "fin"
        /\ Count("chunkSuccess") = env.yielded
        /\ \A l \in LoopIds : loops[l].pc \notin {"hdr", "xhr", "timer"}
        /\ pendingChunk = NoChunk

\* C34: the streaming source yields the chunks the buffered source yields for
\* the same bytes and the same chunk sizes, however the stream splits the bytes
\* into reads (larger than, smaller than, equal to a chunk, or empty): the chunk
\* in hand is the one ChunkedFileIterable gives at the byte where the
\* acknowledged chunks end; it is not empty and has the current chunk byte size
\* unless it ends the file; and when success is emitted the chunks are the
\* file's bytes.
C34_SourcesAgree ==
    /\ \A l \in LoopIds :
          loops[l].chunk # NoChunk =>
              LET chunk == loops[l].chunk
                  r == FileAdvance([NewFileIterable EXCEPT !.pos = BlobsEnd(AckedBodies)],
                                   FileSize, chunkSize * KiB)
              IN  /\ ~r.done
                  /\ chunk = r.out
                  /\ BlobSize(chunk) > 0
                  /\ BlobSize(chunk) = chunkSize * KiB \/ chunk[1] + chunk[2] = FileSize
    /\ \A i \in DOMAIN AckedBodies : BlobSize(AckedBodies[i]) > 0
    /\ Emitted("success") => Tiles(AckedBodies, FileSize)

\* C35: a response with a success status (other than the incomplete 308 of C25)
\* is a success whatever the attempt count and whatever retryCodes holds: on the
\* last permitted attempt, and with its status listed in retryCodes, the chunk is
\* acknowledged with chunkSuccess, no error follows and the upload goes on to the
\* next chunk or to success.
C35_SuccessBeatsLimit ==
    env.lastResAt >= 1 /\ Len(log) > env.lastResAt =>
        LET sent == log[env.lastResAt]
            e == log[env.lastResAt + 1]
            res == env.lastRes
            incomplete == /\ res.statusCode = 308 /\ res.range # NoRange
                          /\ res.range < sent.b
        IN  res.statusCode \in SUCCESSFUL_CHUNK_UPLOAD_CODES /\ ~incomplete =>
                /\ e.ev = "chunkSuccess"
                /\ e.chunk = sent.chunk /\ e.body = sent.body
                /\ e.status = res.statusCode
                /\ \A j \in DOMAIN log : j > env.lastResAt => ~IsError(log[j])
                /\ Quiescent => log[Len(log)].ev = "success"

\* A 200 listed in retryCodes, received on the last permitted attempt after a
\* failed one.
C35_Witness ==
    /\ env.lastResAt >= 1 /\ Len(log) > env.lastResAt
    /\ env.lastRes.statusCode = 200
    /\ 200 \in options.retryCodes
    /\ log[env.lastResAt + 1].ev = "chunkSuccess"
    /\ log[env.lastResAt + 1].a = options.attempts
    /\ options.attempts = 2
    /\ Emitted("success")

\* C36: no request is issued before the endpoint has resolved to a string, and
\* the send loop started when it resolves is the only one, whatever pause(),
\* resume(), offline and online did while the resolver was pending.
C36_EndpointFirst ==
    /\ \A j \in DOMAIN log :
          log[j].ev = "attempt" => env.resolved.at >= 0 /\ j > env.resolved.at
    /\ env.resolved.others = 0

\* C37: the body of every request is the source bytes its Content-Range
\* addresses: the range starts at the byte of the file where the body starts and
\* ends at the byte where it ends.
C37_BodyMatchesRange ==
    \A i \in DOMAIN log :
        log[i].ev = "attempt" =>
            /\ log[i].body # NoChunk
            /\ log[i].a = log[i].body[1]
            /\ log[i].b = log[i].body[1] + log[i].body[2] - 1

\* C38: with useLargeFileWorkaround on, after a failed read of the stream the
\* session goes on with the buffered source and finishes: every request carries
\* the bytes its Content-Range addresses, the acknowledged bodies are the file's
\* bytes in order and, at success, all of them; the read error reaches no other
\* error listener.
C38_FallbackContinues ==
    options.useLargeFileWorkaround /\ env.readErrorAt >= 0 =>
        /\ \A i \in DOMAIN log :
              log[i].ev = "attempt" =>
                  log[i].body # NoChunk /\ log[i].a = log[i].body[1]
        /\ Tiles(AckedBodies, BlobsEnd(AckedBodies))
        /\ BlobsEnd(AckedBodies) <= FileSize
        /\ Emitted("success") => Tiles(AckedBodies, FileSize)
        /\ ErrorCount = 0
        /\ Quiescent => Count("success") = 1

\* C39: resume() on a session that is not paused and pause() on a paused one
\* change nothing of the session and start no send loop; and no call of pause()
\* or resume() changes the byte offset, the chunk index, the attempt count or
\* the chunk size.
C39_CallsChangeNothing ==
    [][/\ (env.redundant)' # env.redundant =>
              UNCHANGED <<options, chunkSize, chunkCount, totalChunks, attemptCount,
                          offline, paused, success, nextChunkRangeStart, pendingChunk,
                          currentXhr, iter, fallbackArmed, endpointPending, loops,
                          nextQueue, log, progress>>
       /\ paused' # paused =>
              UNCHANGED <<nextChunkRangeStart, chunkCount, attemptCount, chunkSize>>]_vars

\* C39, amended: as above, except that resume() begins the next attempt of a
\* parked chunk before it returns, which counts one attempt.
C39_CallsChangeNoPosition ==
    [][/\ (env.redundant)' # env.redundant =>
              UNCHANGED <<options, chunkSize, chunkCount, totalChunks, attemptCount,
                          offline, paused, success, nextChunkRangeStart, pendingChunk,
                          currentXhr, iter, fallbackArmed, endpointPending, loops,
                          nextQueue, log, progress>>
       /\ paused' # paused =>
              /\ UNCHANGED <<nextChunkRangeStart, chunkCount, chunkSize>>
              /\ attemptCount' = attemptCount
                    + (IF paused /\ pendingChunk # NoChunk /\ ~offline THEN 1 ELSE 0)]_vars

\* resume() was called on a session that was not paused, and on a paused one
\* with a chunk parked, which has been sent again.
C39_Witness ==
    /\ env.redundant = "resume"
    /\ env.resumed
    /\ env.parked.at >= 0
    /\ \E j \in DOMAIN log : j > env.parked.at /\ log[j].ev = "attempt"

\* C40: for a source of 0 bytes the session issues no request and emits no
\* attempt, chunkSuccess or progress event, and once it has come to rest
\* unpaused and online it has emitted success exactly once (from the stream,
\* or from the buffered source when the read fails and useLargeFileWorkaround
\* is on).
C40_EmptySource ==
    FileSize = 0 =>
        /\ \A i \in DOMAIN log : log[i].ev \in {"success", "errorRead", "errorHidden"}
        /\ \A l \in LoopIds : loops[l].chunk = NoChunk /\ loops[l].pc \in {"idle", "next", "nextStale"}
        /\ currentXhr = 0
        /\ progress.last = NoProgress
        /\ Count("success") <= 1
        /\ Emitted("success") => ErrorCount = 0
        /\ Quiescent /\ ~paused /\ ~offline /\ (NoReadError \/ options.useLargeFileWorkaround) =>
              Count("success") = 1

====
